---- MODULE Spec2Model ----
(***************************************************************************)
(* A model of the OAuth 2.0 authorization server core of hooklift/oauth2.   *)
(*                                                                         *)
(* The authorization endpoint (CreateGrant, authCodeGrant1, implicitGrant)  *)
(* is translated from src/authorizations.go.  The Provider, the error       *)
(* vocabulary, the renderer and the token endpoint are not part of the      *)
(* sources at hand; they are modelled from the specification and from the   *)
(* way the sources and their tests use them.                                *)
(*                                                                         *)
(* Strings are modelled by their structure: the text of a URL is a record   *)
(* of its components, a query string is a sequence of <<key, value>> pairs  *)
(* and a fragment is a sequence of pairs that may start with a "#" (or, in  *)
(* its escaped form, "%23") marker.                                         *)
(***************************************************************************)
EXTENDS Naturals, Sequences, FiniteSets, TLC

\* Number of grant codes the Provider may mint in one behaviour.
MaxCodes == 2
\* Number of tokens the Provider may mint in one behaviour.
MaxTokens == 2

\* The request slots: Go serves every HTTP request in a goroutine of its own.
Procs == {"p1", "p2"}

\* The opaque values the Provider hands out, in minting order.
CodeNames == <<"c1", "c2", "c3", "c4">>
TokenNames == <<"t1", "t2", "t3", "t4">>

---------------------------------------------------------------------------
(* net/url as the handlers use it *)

\* The keys url.Values.Encode can meet here, in the order it sorts them.
KeyOrder == <<"access_token", "code", "error", "error_description",
              "expires_in", "refresh_token", "scope", "state", "token_type">>

\* The leading "#" that implicitGrant puts in URL.Fragment, raw and escaped.
Hash == <<"#", "">>
EscHash == <<"%23", "">>

\* The text "" (a form value that was not supplied).
EmptyText == [valid |-> TRUE, scheme |-> "", host |-> "", path |-> "",
              rawquery |-> <<>>, frag |-> <<>>]

\* A text url.Parse rejects, such as "%zz".
GarbageText == [valid |-> FALSE, scheme |-> "", host |-> "", path |-> "",
                rawquery |-> <<>>, frag |-> <<>>]

\* The zero url.URL.
ZeroURL == [Scheme |-> "", Host |-> "", Path |-> "", RawQuery |-> <<>>,
            Fragment |-> <<>>]

\* Escaping and unescaping of a fragment: "#" is not allowed raw in it.
EscapeFragment(f) ==
    [i \in 1..Len(f) |-> IF f[i] = Hash THEN EscHash ELSE f[i]]
UnescapeFragment(f) ==
    [i \in 1..Len(f) |-> IF f[i] = EscHash THEN Hash ELSE f[i]]

\* (*URL).String()
String(u) ==
    [valid |-> TRUE, scheme |-> u.Scheme, host |-> u.Host, path |-> u.Path,
     rawquery |-> u.RawQuery, frag |-> EscapeFragment(u.Fragment)]

\* url.Parse: err is TRUE when the text is not a URL.
Parse(t) ==
    IF ~t.valid
    THEN [err |-> TRUE, url |-> ZeroURL]
    ELSE [err |-> FALSE,
          url |-> [Scheme |-> t.scheme, Host |-> t.host, Path |-> t.path,
                   RawQuery |-> t.rawquery,
                   Fragment |-> UnescapeFragment(t.frag)]]

\* url.ParseQuery / (*URL).Query(): a fresh map from the raw query.
ParseQuery(raw) ==
    [k \in {raw[i][1] : i \in DOMAIN raw} |->
        raw[CHOOSE i \in DOMAIN raw :
              raw[i][1] = k /\ \A j \in DOMAIN raw : raw[j][1] = k => i <= j][2]]
Query(u) == ParseQuery(u.RawQuery)

\* url.Values.Set
Set(vals, k, x) ==
    [kk \in (DOMAIN vals) \cup {k} |-> IF kk = k THEN x ELSE vals[kk]]

\* url.Values.Encode: "k=v&k=v", sorted by key.
Encode(vals) ==
    LET ks == SelectSeq(KeyOrder, LAMBDA k : k \in DOMAIN vals)
    IN  [i \in 1..Len(ks) |-> <<ks[i], vals[ks[i]]>>]

\* url.Values{}
NoValues == [k \in {} |-> ""]

---------------------------------------------------------------------------
(* The error vocabulary (AuthzError values) *)

AuthzError(name, code, desc, state) ==
    [name |-> name, code |-> code, desc |-> desc, state |-> state]

ErrClientIDMissing ==
    AuthzError("ErrClientIDMissing", "invalid_request", "client_id missing", "")
ErrClientIDNotFound ==
    AuthzError("ErrClientIDNotFound", "invalid_request", "client_id not found", "")
ErrRedirectURLInvalid ==
    AuthzError("ErrRedirectURLInvalid", "access_denied",
               "3rd-party client app provided an invalid redirect_uri. It does not comply with http://tools.ietf.org/html/rfc3986#section-4.3 or does not use HTTPS",
               "")
ErrRedirectURLMismatch ==
    AuthzError("ErrRedirectURLMismatch", "access_denied",
               "3rd-party client app provided a redirect_uri that does not match the URI registered for this client in our database.",
               "")
ErrStateRequired(state) ==
    AuthzError("ErrStateRequired", "invalid_request",
               "state parameter is required by this authorization server.", state)
ErrScopeRequired(state) ==
    AuthzError("ErrScopeRequired", "invalid_request",
               "scope parameter is required by this authorization server.", state)
ErrUnsupportedResponseType(state) ==
    AuthzError("ErrUnsupportedResponseType", "unsupported_response_type",
               "unsupported response_type", state)
ErrServerError(state, cause) ==
    AuthzError("ErrServerError", "server_error", cause, state)
ErrInvalidGrant ==
    AuthzError("ErrInvalidGrant", "invalid_grant",
               "Grant code was revoked, expired or already used.", "")
ErrInvalidClient ==
    AuthzError("ErrInvalidClient", "invalid_client", "client authentication failed", "")

\* EncodeErrInURI writes the error into the url.Values it is handed.
EncodeErrInURI(vals, e) ==
    Set(Set(Set(vals, "error", e.code), "error_description", e.desc),
        "state", e.state)

---------------------------------------------------------------------------
(* The Provider and its one registered client *)

ClientID == "test_client_id"

\* The redirection URI the client registered.
RegisteredURL == [Scheme |-> "https", Host |-> "example.com", Path |-> "/cb",
                  RawQuery |-> <<>>, Fragment |-> <<>>]

\* Provider.ClientInfo: the client record, or an error for an unknown client
\* or a failed lookup.  The record's RedirectURL is a *url.URL: every copy of
\* the record points at the one URL object the Provider holds (regURL below).
ClientInfo(clientID, fail) ==
    IF fail THEN [err |-> "lookup failed", ID |-> ""]
    ELSE IF clientID = ClientID THEN [err |-> "", ID |-> ClientID]
    ELSE [err |-> "client not found", ID |-> ""]

\* Provider.ScopesInfo: the descriptions of the requested scopes, or an error
\* for a scope string that breaks RFC 6749 section 3.3.
ScopesInfo(scope) ==
    IF scope = "bad" THEN [err |-> "malformed scope", scopes |-> <<>>]
    ELSE [err |-> "", scopes |-> <<scope>>]

\* Provider.GenAuthzCode: the storage with one more grant, in state issued,
\* bound to the client and to the redirection URI its record holds.
GenAuthzCode(store, client, scopes) ==
    Append(store, [code |-> CodeNames[Len(store) + 1], client |-> client.ID,
                   redirect |-> String(client.RedirectURL),
                   scopes |-> scopes, state |-> "issued"])

\* Provider.GenToken: the storage with one more token.  grant is the code the
\* token derives from, "" for a token of the implicit flow.
GenToken(store, kind, scopes, client, grant) ==
    Append(store, [value |-> TokenNames[Len(store) + 1], kind |-> kind,
                   type |-> "bearer", expires_in |-> "600", scopes |-> scopes,
                   client |-> client, grant |-> grant, status |-> "active"])

\* StringifyScopes
StringifyScopes(scopes) == IF Len(scopes) = 0 THEN "" ELSE scopes[1]

---------------------------------------------------------------------------
(* Requests and responses *)

Vars == {"client_id", "state", "redirect_uri", "scope", "response_type"}

NoData == [Client |-> "", Scopes |-> <<>>, GrantType |-> "", State |-> ""]
NoBody == [error |-> "", desc |-> "", access_token |-> "", token_type |-> "",
           expires_in |-> "", refresh_token |-> ""]

\* req.FormValue for each of the five parameters.
FormValues(r) ==
    [v \in Vars |->
        CASE v = "client_id" -> r.client_id
          [] v = "state" -> r.state
          [] v = "redirect_uri" -> r.redirect_uri
          [] v = "scope" -> r.scope
          [] v = "response_type" -> r.response_type]

NoReq == [endpoint |-> "none", method |-> "", auth |-> FALSE, client_id |-> "",
          ciFail |-> FALSE, redirect_uri |-> EmptyText, state |-> "",
          response_type |-> "", scope |-> "", code |-> "", clientOK |-> FALSE]

\* req.URL: the parameters travel in the URL of a GET and in the body of a
\* POST.
ReqURL(r) ==
    [path |-> "/oauth2/authzs", hasQuery |-> (r.method = "GET"),
     query |-> IF r.method = "GET" THEN FormValues(r) ELSE FormValues(NoReq)]
NoReferer == [path |-> "", hasQuery |-> FALSE, query |-> FormValues(NoReq)]

\* Nothing written to the http.ResponseWriter yet.
NoResp == [n |-> 0, kind |-> "none", status |-> 0, to |-> "none",
           location |-> EmptyText, referer |-> NoReferer, errors |-> <<>>,
           data |-> NoData, sts |-> "none", body |-> NoBody]

\* render.HTML: one more response written, an HTML page.
RenderHTML(w, status, data, errors, sts) ==
    [w EXCEPT !.n = w.n + 1, !.kind = "render", !.status = status,
              !.data = data, !.errors = errors, !.sts = sts]

\* http.Redirect with http.StatusFound to a URL text.
Redirect(w, text) ==
    [w EXCEPT !.n = w.n + 1, !.kind = "redirect", !.status = 302,
              !.to = "uri", !.location = text]

\* http.Redirect to Provider.LoginURL(req.URL.String()).
RedirectLogin(w, r) ==
    [w EXCEPT !.n = w.n + 1, !.kind = "redirect", !.status = 302,
              !.to = "login",
              !.referer = ReqURL(r)]

\* cfg.stsMaxAge as Handler sets it: one year, in seconds.
stsMaxAge == 31536000

\* The STSMaxAge of the render.Options a page was rendered with: cfg.stsMaxAge
\* where the caller passes it, the zero time.Duration where it does not.
STSMaxAge(w) == IF w.sts = "cfg" THEN stsMaxAge ELSE 0

\* The security headers render.HTML writes with a page.
SecurityHeaders(w) ==
    [sts |-> STSMaxAge(w), xss |-> "1; mode=block", cto |-> "nosniff",
     xfo |-> "SAMEORIGIN"]

---------------------------------------------------------------------------
(* Handler: src/provider.go *)

\* strings.HasPrefix(s, prefix): s starts with the bytes of prefix.  A path is
\* the sequence of its bytes.
HasPrefix(path, prefix) ==
    /\ Len(prefix) <= Len(path)
    /\ SubSeq(path, 1, Len(prefix)) = prefix

\* The handler functions of the authorization endpoint, by method.
AuthzHandlers ==
    [m \in {"GET", "POST", "DELETE"} |->
        IF m = "DELETE" THEN "RevokeGrant" ELSE "CreateGrant"]

\* The handler functions of the token endpoint, by method.
TokenHandlers == [m \in {"POST"} |-> "IssueToken"]

\* The bytes of "/oauth2", which the default endpoint paths start with.
PathOauth2 == <<"/", "o", "a", "u", "t", "h", "2">>

\* The configuration Handler starts from: "/oauth2/authzs", "/oauth2/tokens"
\* and "/oauth2/revoke".
DefaultConfig ==
    [authzEndpoint |-> PathOauth2 \o <<"/", "a", "u", "t", "h", "z", "s">>,
     tokenEndpoint |-> PathOauth2 \o <<"/", "t", "o", "k", "e", "n", "s">>,
     revokeEndpoint |-> PathOauth2 \o <<"/", "r", "e", "v", "o", "k", "e">>]

\* The configurations tried: the default, SetAuthzEndpoint("/oauth2") and
\* SetTokenEndpoint("/oauth2"), which make one endpoint path a prefix of the
\* other.
Configs ==
    {DefaultConfig,
     [DefaultConfig EXCEPT !.authzEndpoint = PathOauth2],
     [DefaultConfig EXCEPT !.tokenEndpoint = PathOauth2]}

\* The registry of Handler: the handlers of each endpoint path.
Registry(c) ==
    [e \in {c.authzEndpoint, c.tokenEndpoint} |->
        IF e = c.tokenEndpoint THEN TokenHandlers ELSE AuthzHandlers]

\* The orders in which a range over the registry may visit its keys.
Orders(c) ==
    {o \in [1..Cardinality(DOMAIN Registry(c)) -> DOMAIN Registry(c)] :
        \A i, j \in DOMAIN o : i # j => o[i] # o[j]}

\* Dispatch that hands a request no endpoint matches to the next handler.
DispatchFallsThrough(c, path, method, order) ==
    LET hits == SelectSeq(order, LAMBDA e : HasPrefix(path, e))
    IN  IF hits = <<>>
        THEN [fn |-> "none", endpoint |-> <<>>, next |-> TRUE]
        ELSE IF method \in DOMAIN Registry(c)[hits[1]]
        THEN [fn |-> Registry(c)[hits[1]][method], endpoint |-> hits[1],
              next |-> FALSE]
        ELSE [fn |-> "405", endpoint |-> hits[1], next |-> FALSE]

\* The loop of the http.HandlerFunc Handler returns: the first endpoint, in
\* the order the range visits them, whose path is a prefix of the request's
\* decides; fn is the handler function run, "405" or "none", and next says
\* whether the wrapped handler is invoked.
Dispatch(c, path, method, order) ==
    LET hits == SelectSeq(order, LAMBDA e : HasPrefix(path, e))
    IN  IF hits = <<>>
        THEN [fn |-> "none", endpoint |-> <<>>, next |-> FALSE]
        ELSE IF method \in DOMAIN Registry(c)[hits[1]]
        THEN [fn |-> Registry(c)[hits[1]][method], endpoint |-> hits[1],
              next |-> FALSE]
        ELSE [fn |-> "405", endpoint |-> hits[1], next |-> FALSE]

\* w.WriteHeader(http.StatusMethodNotAllowed); w.Write("Method Not Allowed")
MethodNotAllowed(w) ==
    [w EXCEPT !.n = w.n + 1, !.kind = "text", !.status = 405,
              !.body = [NoBody EXCEPT !.desc = "Method Not Allowed"]]

\* No request dispatched.
NoServed == [path |-> <<>>, method |-> "", form |-> NoReq, fn |-> "",
             endpoint |-> <<>>, next |-> FALSE]

---------------------------------------------------------------------------
(* State *)

VARIABLES
    regURL,     \* the url.URL the client record's RedirectURL points at
    grants,     \* Provider storage: the grant codes minted so far
    tokens,     \* Provider storage: the tokens minted so far
    pc,         \* per request slot: where its handler stands
    req,        \* per request slot: the request being served
    resp,       \* per request slot: what was written to its ResponseWriter
    calls,      \* per request slot: the Provider operations called so far
    authzData,  \* per request slot: the *AuthzData of authCodeGrant1
    query,      \* per request slot: the local url.Values
    minted,     \* per request slot: the code or token minted for it
    okCount,    \* per grant code: successful token responses so far
    rejected,   \* the grant codes answered with invalid_grant so far
    overlap,    \* per request slot: it ran while a like request was in flight
    arrival,    \* per request slot: the state its grant code had on arrival
    cfg,        \* the configuration Handler was built with
    served      \* per request slot: the request Handler dispatched and how

vars == <<regURL, grants, tokens, pc, req, resp, calls, authzData, query,
          minted, okCount, rejected, overlap, arrival, cfg, served>>

provider == <<regURL, grants, tokens>>
history == <<okCount, rejected, overlap, arrival>>
routing == <<cfg, served>>

Init ==
    /\ regURL = RegisteredURL
    /\ grants = <<>>
    /\ tokens = <<>>
    /\ pc = [p \in Procs |-> "idle"]
    /\ req = [p \in Procs |-> NoReq]
    /\ resp = [p \in Procs |-> NoResp]
    /\ calls = [p \in Procs |-> <<>>]
    /\ authzData = [p \in Procs |-> NoData]
    /\ query = [p \in Procs |-> NoValues]
    /\ minted = [p \in Procs |-> ""]
    /\ okCount = [i \in DOMAIN CodeNames |-> 0]
    /\ rejected = {}
    /\ overlap = [p \in Procs |-> FALSE]
    /\ arrival = [p \in Procs |-> ""]
    /\ cfg = DefaultConfig
    /\ served = [p \in Procs |-> NoServed]

---------------------------------------------------------------------------
(* The authorization endpoint: src/authorizations.go *)

\* authCodeGrant1 without the checks of the redirect URI's scheme and of its
\* equality with the registered one (lines 179-206).
authCodeGrant1Unchecked(w, params, ciFail, u) ==
    LET clientID == params["client_id"]
        cinfo == ClientInfo(clientID, ciFail)
        \* params holds all five keys, so the lookup always reports ok
        ok == "redirect_uri" \in DOMAIN params
        parsed == Parse(params["redirect_uri"])
        redirectURL == IF ok THEN parsed.url ELSE u
        state == params["state"]
        grantType == params["response_type"]
        scope == params["scope"]
        scopes == ScopesInfo(scope)
        \* EncodeErrInURI fills the map redirectURL.Query() returned, a copy:
        \* redirectURL itself is left as it was
        failRedirect(e) ==
            LET filled == EncodeErrInURI(Query(redirectURL), e)
            IN  Redirect(w, String(redirectURL))
        failRender(e) == RenderHTML(w, 200, NoData, <<e>>, "unset")
    IN  IF clientID = ""
        THEN [done |-> TRUE, resp |-> failRender(ErrClientIDMissing),
              calls |-> <<>>, data |-> NoData]
        ELSE IF cinfo.err # ""
        THEN [done |-> TRUE, resp |-> failRender(ErrServerError("", cinfo.err)),
              calls |-> <<"ClientInfo">>, data |-> NoData]
        ELSE IF ok /\ parsed.err
        THEN [done |-> TRUE, resp |-> failRender(ErrRedirectURLInvalid),
              calls |-> <<"ClientInfo">>, data |-> NoData]
        ELSE IF state = ""
        THEN [done |-> TRUE, resp |-> failRedirect(ErrStateRequired(state)),
              calls |-> <<"ClientInfo">>, data |-> NoData]
        ELSE IF grantType # "code" /\ grantType # "token"
        THEN [done |-> TRUE,
              resp |-> failRedirect(ErrUnsupportedResponseType(state)),
              calls |-> <<"ClientInfo">>, data |-> NoData]
        ELSE IF scope = ""
        THEN [done |-> TRUE, resp |-> failRedirect(ErrScopeRequired(state)),
              calls |-> <<"ClientInfo">>, data |-> NoData]
        ELSE IF scopes.err # ""
        THEN [done |-> TRUE,
              resp |-> failRedirect(ErrServerError(state, scopes.err)),
              calls |-> <<"ClientInfo", "ScopesInfo">>, data |-> NoData]
        ELSE [done |-> FALSE, resp |-> w,
              calls |-> <<"ClientInfo", "ScopesInfo">>,
              data |-> [Client |-> cinfo.ID, Scopes |-> scopes.scopes,
                        GrantType |-> grantType, State |-> state]]

\* authCodeGrant1 without the client_id presence check (lines 112-124): an
\* empty client_id goes to the client lookup like any other.
authCodeGrant1NoClientIDCheck(w, params, ciFail, u) ==
    IF params["client_id"] = ""
    THEN [done |-> TRUE,
          resp |-> RenderHTML(w, 200, NoData,
                     <<ErrServerError("", ClientInfo("", ciFail).err)>>,
                     "unset"),
          calls |-> <<"ClientInfo">>, data |-> NoData]
    ELSE authCodeGrant1Unchecked(w, params, ciFail, u)

\* authCodeGrant1: the validation of the request parameters against the URL
\* object u the client record points at.  The result says whether a response
\* was written (data = NoData then) and which Provider operations ran.
authCodeGrant1(w, params, ciFail, u) ==
    LET clientID == params["client_id"]
        cinfo == ClientInfo(clientID, ciFail)
        \* params holds all five keys, so the lookup always reports ok
        ok == "redirect_uri" \in DOMAIN params
        parsed == Parse(params["redirect_uri"])
        redirectURL == IF ok THEN parsed.url ELSE u
        state == params["state"]
        grantType == params["response_type"]
        scope == params["scope"]
        scopes == ScopesInfo(scope)
        \* EncodeErrInURI fills the map redirectURL.Query() returned, a copy:
        \* redirectURL itself is left as it was
        failRedirect(e) ==
            LET filled == EncodeErrInURI(Query(redirectURL), e)
            IN  Redirect(w, String(redirectURL))
        failRender(e) == RenderHTML(w, 200, NoData, <<e>>, "unset")
    IN  IF clientID = ""
        THEN [done |-> TRUE, resp |-> failRender(ErrClientIDMissing),
              calls |-> <<>>, data |-> NoData]
        ELSE IF cinfo.err # ""
        THEN [done |-> TRUE, resp |-> failRender(ErrServerError("", cinfo.err)),
              calls |-> <<"ClientInfo">>, data |-> NoData]
        ELSE IF ok /\ parsed.err
        THEN [done |-> TRUE, resp |-> failRender(ErrRedirectURLInvalid),
              calls |-> <<"ClientInfo">>, data |-> NoData]
        ELSE IF redirectURL.Scheme # "https"
        THEN [done |-> TRUE, resp |-> failRender(ErrRedirectURLInvalid),
              calls |-> <<"ClientInfo">>, data |-> NoData]
        ELSE IF String(redirectURL) # String(u)
        THEN [done |-> TRUE, resp |-> failRender(ErrRedirectURLMismatch),
              calls |-> <<"ClientInfo">>, data |-> NoData]
        ELSE IF state = ""
        THEN [done |-> TRUE, resp |-> failRedirect(ErrStateRequired(state)),
              calls |-> <<"ClientInfo">>, data |-> NoData]
        ELSE IF grantType # "code" /\ grantType # "token"
        THEN [done |-> TRUE,
              resp |-> failRedirect(ErrUnsupportedResponseType(state)),
              calls |-> <<"ClientInfo">>, data |-> NoData]
        ELSE IF scope = ""
        THEN [done |-> TRUE, resp |-> failRedirect(ErrScopeRequired(state)),
              calls |-> <<"ClientInfo">>, data |-> NoData]
        ELSE IF scopes.err # ""
        THEN [done |-> TRUE,
              resp |-> failRedirect(ErrServerError(state, scopes.err)),
              calls |-> <<"ClientInfo", "ScopesInfo">>, data |-> NoData]
        ELSE [done |-> FALSE, resp |-> w,
              calls |-> <<"ClientInfo", "ScopesInfo">>,
              data |-> [Client |-> cinfo.ID, Scopes |-> scopes.scopes,
                        GrantType |-> grantType, State |-> state]]

\* CreateGrantEntry without the session check (lines 38-42).
CreateGrantEntryNoSession(w, r, u) ==
    LET v == authCodeGrant1(w, FormValues(r), r.ciFail, u)
    IN  IF v.done
        THEN [v EXCEPT !.calls = <<"IsUserAuthenticated">> \o v.calls]
        ELSE IF r.method = "GET"
        THEN [done |-> TRUE, resp |-> RenderHTML(w, 200, v.data, <<>>, "cfg"),
              calls |-> <<"IsUserAuthenticated">> \o v.calls, data |-> v.data]
        ELSE [v EXCEPT !.calls = <<"IsUserAuthenticated">> \o v.calls]

\* CreateGrantEntry without the consent form of a GET (lines 57-68): a GET
\* that passed the validation goes on like a POST.
CreateGrantEntryGetMints(w, r, u) ==
    LET v == authCodeGrant1(w, FormValues(r), r.ciFail, u)
    IN  IF ~r.auth
        THEN [done |-> TRUE, resp |-> RedirectLogin(w, r),
              calls |-> <<"IsUserAuthenticated", "LoginURL">>, data |-> NoData]
        ELSE [v EXCEPT !.calls = <<"IsUserAuthenticated">> \o v.calls]

\* CreateGrantEntry without the return after a failed validation (lines
\* 52-55): a GET whose error was already sent is rendered the form as well.
CreateGrantEntryNoNilCheck(w, r, u) ==
    LET v == authCodeGrant1(w, FormValues(r), r.ciFail, u)
    IN  IF ~r.auth
        THEN [done |-> TRUE, resp |-> RedirectLogin(w, r),
              calls |-> <<"IsUserAuthenticated", "LoginURL">>, data |-> NoData]
        ELSE IF r.method = "GET"
        THEN [done |-> TRUE,
              resp |-> RenderHTML(v.resp, 200, v.data, <<>>, "cfg"),
              calls |-> <<"IsUserAuthenticated">> \o v.calls, data |-> v.data]
        ELSE [v EXCEPT !.calls = <<"IsUserAuthenticated">> \o v.calls]

\* CreateGrant up to the point where the Provider is asked to mint: the
\* session check, the validation and, for a GET, the consent form.
CreateGrantEntry(w, r, u) ==
    LET v == authCodeGrant1(w, FormValues(r), r.ciFail, u)
    IN  IF ~r.auth
        THEN [done |-> TRUE, resp |-> RedirectLogin(w, r),
              calls |-> <<"IsUserAuthenticated", "LoginURL">>, data |-> NoData]
        ELSE IF v.done
        THEN [v EXCEPT !.calls = <<"IsUserAuthenticated">> \o v.calls]
        ELSE IF r.method = "GET"
        THEN [done |-> TRUE, resp |-> RenderHTML(w, 200, v.data, <<>>, "cfg"),
              calls |-> <<"IsUserAuthenticated">> \o v.calls, data |-> v.data]
        ELSE [v EXCEPT !.calls = <<"IsUserAuthenticated">> \o v.calls]

\* The slots whose consent submission passed the validation and is being
\* served.
InFlightAuthz ==
    {q \in Procs : pc[q] \in {"codeMint", "codeQuery", "codeSetQuery",
                              "codeRedirect", "implicitMint",
                              "implicitSetFragment", "implicitRedirect"}}

\* A GET or POST arrives at the authorization endpoint (lines 37-74).
CreateGrant(p, r) ==
    LET out == CreateGrantEntry(NoResp, r, regURL)
    IN  /\ pc[p] = "idle"
        /\ overlap' = IF out.done THEN overlap
                      ELSE [q \in Procs |->
                              IF q = p THEN InFlightAuthz # {}
                              ELSE overlap[q] \/ q \in InFlightAuthz]
        /\ req' = [req EXCEPT ![p] = r]
        /\ resp' = [resp EXCEPT ![p] = out.resp]
        /\ calls' = [calls EXCEPT ![p] = out.calls]
        /\ authzData' = [authzData EXCEPT ![p] = IF out.done THEN NoData ELSE out.data]
        /\ pc' = [pc EXCEPT ![p] =
                    IF out.done THEN "done"
                    ELSE IF r.response_type = "token" THEN "implicitMint"
                    ELSE "codeMint"]
        /\ UNCHANGED <<provider, query, minted, okCount, rejected, arrival,
                       routing>>

\* Lines 83-94: the Provider mints the grant code, or fails.
CreateGrantMint(p, fail) ==
    /\ pc[p] = "codeMint"
    /\ calls' = [calls EXCEPT ![p] = Append(@, "GenAuthzCode")]
    /\ IF fail
       THEN /\ resp' = [resp EXCEPT ![p] =
                  RenderHTML(@, 200, NoData,
                             <<ErrServerError("", "mint failed")>>, "unset")]
            /\ pc' = [pc EXCEPT ![p] = "done"]
            /\ UNCHANGED <<grants, minted>>
       ELSE /\ Len(grants) < MaxCodes
            /\ grants' = GenAuthzCode(grants,
                                      [ID |-> authzData[p].Client,
                                       RedirectURL |-> regURL],
                                      authzData[p].Scopes)
            /\ minted' = [minted EXCEPT ![p] = CodeNames[Len(grants) + 1]]
            /\ pc' = [pc EXCEPT ![p] = "codeQuery"]
            /\ UNCHANGED resp
    /\ UNCHANGED <<regURL, tokens, req, authzData, query, history, routing>>

\* Lines 96-99: u is the client record's URL object itself; query is a copy
\* of its query with code and state set.
CreateGrantQuery(p) ==
    /\ pc[p] = "codeQuery"
    /\ query' = [query EXCEPT ![p] =
                   Set(Set(Query(regURL), "code", minted[p]),
                       "state", authzData[p].State)]
    /\ pc' = [pc EXCEPT ![p] = "codeSetQuery"]
    /\ UNCHANGED <<provider, req, resp, calls, authzData, minted, history, routing>>

\* Line 100: u.RawQuery = query.Encode()
CreateGrantSetQuery(p) ==
    /\ pc[p] = "codeSetQuery"
    /\ regURL' = [regURL EXCEPT !.RawQuery = Encode(query[p])]
    /\ pc' = [pc EXCEPT ![p] = "codeRedirect"]
    /\ UNCHANGED <<grants, tokens, req, resp, calls, authzData, query, minted,
                   history, routing>>

\* Line 103: http.Redirect(w, req, u.String(), http.StatusFound)
CreateGrantRedirect(p) ==
    /\ pc[p] = "codeRedirect"
    /\ resp' = [resp EXCEPT ![p] = Redirect(@, String(regURL))]
    /\ pc' = [pc EXCEPT ![p] = "done"]
    /\ UNCHANGED <<provider, req, calls, authzData, query, minted, history, routing>>

\* implicitGrant, lines 253-260: the Provider mints the access token, or
\* fails; the failure is redirected to u.String(), where u is the client
\* record's URL object and the error went into a copy of its query.
implicitGrantMint(p, fail) ==
    /\ pc[p] = "implicitMint"
    /\ calls' = [calls EXCEPT ![p] = Append(@, "GenToken")]
    /\ IF fail
       THEN /\ LET filled == EncodeErrInURI(Query(regURL),
                               ErrServerError(authzData[p].State, "mint failed"))
               IN  resp' = [resp EXCEPT ![p] = Redirect(@, String(regURL))]
            /\ pc' = [pc EXCEPT ![p] = "done"]
            /\ UNCHANGED <<tokens, minted>>
       ELSE /\ Len(tokens) < MaxTokens
            /\ tokens' = GenToken(tokens, "access", authzData[p].Scopes,
                                  authzData[p].Client, "")
            /\ minted' = [minted EXCEPT ![p] = TokenNames[Len(tokens) + 1]]
            /\ pc' = [pc EXCEPT ![p] = "implicitSetFragment"]
            /\ UNCHANGED resp
    /\ UNCHANGED <<regURL, grants, req, authzData, query, history, routing>>

\* The token GenToken returned to this request.
TokenOf(value) ==
    tokens[CHOOSE i \in DOMAIN tokens : tokens[i].value = value]

\* implicitGrantSetFragment that also puts a refresh_token in the fragment.
implicitGrantSetFragmentWithRefresh(p) ==
    LET token == TokenOf(minted[p])
        q == Set(Set(Set(Set(Set(Set(NoValues,
                 "access_token", token.value),
                 "token_type", token.type),
                 "expires_in", token.expires_in),
                 "scope", StringifyScopes(token.scopes)),
                 "state", authzData[p].State),
                 "refresh_token", "r1")
    IN  /\ pc[p] = "implicitSetFragment"
        /\ query' = [query EXCEPT ![p] = q]
        /\ regURL' = [regURL EXCEPT !.Fragment = <<Hash>> \o Encode(q)]
        /\ pc' = [pc EXCEPT ![p] = "implicitRedirect"]
        /\ UNCHANGED <<grants, tokens, req, resp, calls, authzData, minted,
                       history, routing>>

\* implicitGrant, lines 262-269: the token goes into a fresh url.Values and
\* u.Fragment = "#" + query.Encode()
implicitGrantSetFragment(p) ==
    LET token == TokenOf(minted[p])
        q == Set(Set(Set(Set(Set(NoValues,
                 "access_token", token.value),
                 "token_type", token.type),
                 "expires_in", token.expires_in),
                 "scope", StringifyScopes(token.scopes)),
                 "state", authzData[p].State)
    IN  /\ pc[p] = "implicitSetFragment"
        /\ query' = [query EXCEPT ![p] = q]
        /\ regURL' = [regURL EXCEPT !.Fragment = <<Hash>> \o Encode(q)]
        /\ pc' = [pc EXCEPT ![p] = "implicitRedirect"]
        /\ UNCHANGED <<grants, tokens, req, resp, calls, authzData, minted,
                       history, routing>>

\* implicitGrant, line 270: http.Redirect(w, req, u.String(), http.StatusFound)
implicitGrantRedirect(p) ==
    /\ pc[p] = "implicitRedirect"
    /\ resp' = [resp EXCEPT ![p] = Redirect(@, String(regURL))]
    /\ pc' = [pc EXCEPT ![p] = "done"]
    /\ UNCHANGED <<provider, req, calls, authzData, query, minted, history, routing>>

\* The handler has returned: the request is over and its locals are gone.
Return(p) ==
    /\ pc[p] = "done"
    /\ pc' = [pc EXCEPT ![p] = "idle"]
    /\ req' = [req EXCEPT ![p] = NoReq]
    /\ resp' = [resp EXCEPT ![p] = NoResp]
    /\ calls' = [calls EXCEPT ![p] = <<>>]
    /\ authzData' = [authzData EXCEPT ![p] = NoData]
    /\ query' = [query EXCEPT ![p] = NoValues]
    /\ minted' = [minted EXCEPT ![p] = ""]
    /\ overlap' = [overlap EXCEPT ![p] = FALSE]
    /\ arrival' = [arrival EXCEPT ![p] = ""]
    /\ served' = [served EXCEPT ![p] = NoServed]
    /\ UNCHANGED <<provider, okCount, rejected, cfg>>

---------------------------------------------------------------------------
(* The token endpoint, grant_type=authorization_code *)

\* The index of grant code c in the Provider's storage, 0 when unknown.
GrantIndex(store, c) ==
    IF \E i \in DOMAIN store : store[i].code = c
    THEN CHOOSE i \in DOMAIN store : store[i].code = c
    ELSE 0

\* Redeemable without the check that the code is still unused.
RedeemableIgnoringUse(store, c, client, redirect) ==
    LET i == GrantIndex(store, c)
    IN  /\ i # 0
        /\ store[i].state # "revoked"
        /\ store[i].client = client
        /\ store[i].redirect = redirect

\* Redeemable without the comparison of the redirect URI.
RedeemableIgnoringRedirect(store, c, client, redirect) ==
    LET i == GrantIndex(store, c)
    IN  /\ i # 0
        /\ store[i].state = "issued"
        /\ store[i].client = client

\* Whether the Provider may redeem code c for this client and redirect URI:
\* the code is known, not yet used or revoked, belongs to the client and was
\* created for the same redirect URI.
Redeemable(store, c, client, redirect) ==
    LET i == GrantIndex(store, c)
    IN  /\ i # 0
        /\ store[i].state = "issued"
        /\ store[i].client = client
        /\ store[i].redirect = redirect

\* RedeemAuthzCode without the update: the code stays issued.
RedeemAuthzCodeForgets(store, c) == store

\* The Provider's conditional update of a redeemable code: issued -> redeemed.
RedeemAuthzCode(store, c) ==
    [store EXCEPT ![GrantIndex(store, c)].state = "redeemed"]

\* Provider.RevokeAuthzCode on the grants: the code, when known, is revoked.
RevokeAuthzCode(store, c) ==
    [i \in DOMAIN store |->
        IF store[i].code = c THEN [store[i] EXCEPT !.state = "revoked"]
        ELSE store[i]]

\* RevokeTokensOf without the cascade.
RevokeTokensOfNone(store, c) == store

\* Provider.RevokeAuthzCode on the tokens: every token generated with the
\* code is revoked.
RevokeTokensOf(store, c) ==
    [i \in DOMAIN store |->
        IF store[i].grant = c THEN [store[i] EXCEPT !.status = "revoked"]
        ELSE store[i]]

\* A JSON response of the token endpoint.
JSON(w, status, body) ==
    [w EXCEPT !.n = w.n + 1, !.kind = "json", !.status = status, !.body = body]

ErrorBody(e) == [NoBody EXCEPT !.error = e.code, !.desc = e.desc]

TokenBody(access, refresh) ==
    [NoBody EXCEPT !.access_token = access.value, !.token_type = access.type,
                   !.expires_in = access.expires_in, !.refresh_token = refresh]

\* The slots whose token request for code c is being served.
InFlightFor(c) ==
    {q \in Procs : req[q].endpoint = "token" /\ req[q].code = c
                   /\ pc[q] \in {"redeem", "revoke"}}

\* A POST arrives at the token endpoint: the client is authenticated first.
IssueToken(p, r) ==
    /\ pc[p] = "idle"
    /\ req' = [req EXCEPT ![p] = r]
    /\ calls' = [calls EXCEPT ![p] = <<"ClientInfo">>]
    /\ arrival' = [arrival EXCEPT ![p] =
                     IF GrantIndex(grants, r.code) = 0 THEN "unknown"
                     ELSE grants[GrantIndex(grants, r.code)].state]
    /\ IF r.clientOK
       THEN /\ pc' = [pc EXCEPT ![p] = "redeem"]
            /\ overlap' = [q \in Procs |->
                             IF q = p THEN InFlightFor(r.code) # {}
                             ELSE overlap[q] \/ q \in InFlightFor(r.code)]
            /\ UNCHANGED resp
       ELSE /\ pc' = [pc EXCEPT ![p] = "done"]
            /\ resp' = [resp EXCEPT ![p] = JSON(@, 401, ErrorBody(ErrInvalidClient))]
            /\ UNCHANGED overlap
    /\ UNCHANGED <<provider, authzData, query, minted, okCount, rejected,
                   routing>>

\* The Provider redeems the code in one conditional update and the tokens are
\* issued from it; a code that cannot be redeemed goes on to be revoked.
IssueTokenRedeem(p, withRefresh) ==
    LET c == req[p].code
        n == IF withRefresh THEN 2 ELSE 1
        i == GrantIndex(grants, c)
        t1 == GenToken(tokens, "access", grants[i].scopes, grants[i].client, c)
        t2 == IF withRefresh
              THEN GenToken(t1, "refresh", grants[i].scopes, grants[i].client, c)
              ELSE t1
    IN  /\ pc[p] = "redeem"
        /\ IF Redeemable(grants, c, ClientID, req[p].redirect_uri)
           THEN /\ Len(tokens) + n <= MaxTokens
                /\ grants' = RedeemAuthzCode(grants, c)
                /\ tokens' = t2
                /\ calls' = [calls EXCEPT ![p] = Append(@, "GenToken")]
                /\ minted' = [minted EXCEPT ![p] = t1[Len(tokens) + 1].value]
                /\ resp' = [resp EXCEPT ![p] =
                      JSON(@, 200, TokenBody(t1[Len(tokens) + 1],
                           IF withRefresh THEN t2[Len(t2)].value ELSE ""))]
                /\ okCount' = [okCount EXCEPT ![i] = @ + 1]
                /\ pc' = [pc EXCEPT ![p] = "done"]
           ELSE /\ ~withRefresh
                /\ pc' = [pc EXCEPT ![p] = "revoke"]
                /\ UNCHANGED <<grants, tokens, calls, minted, resp, okCount>>
        /\ UNCHANGED <<regURL, req, authzData, query, rejected, overlap, arrival,
                       routing>>

\* The code could not be redeemed: it is revoked with every token issued from
\* it, and the request is answered with invalid_grant.
IssueTokenRevoke(p) ==
    LET c == req[p].code
    IN  /\ pc[p] = "revoke"
        /\ grants' = RevokeAuthzCode(grants, c)
        /\ tokens' = RevokeTokensOf(tokens, c)
        /\ calls' = [calls EXCEPT ![p] = Append(@, "RevokeAuthzCode")]
        /\ resp' = [resp EXCEPT ![p] = JSON(@, 400, ErrorBody(ErrInvalidGrant))]
        /\ rejected' = rejected \cup {c}
        /\ pc' = [pc EXCEPT ![p] = "done"]
        /\ UNCHANGED <<regURL, req, authzData, query, minted, okCount, overlap,
                       arrival, routing>>

---------------------------------------------------------------------------
(* The requests a user agent may send to the authorization endpoint *)

HttpText == [valid |-> TRUE, scheme |-> "http", host |-> "attacker.com",
             path |-> "/callback", rawquery |-> <<>>, frag |-> <<>>]
AttackerText == [valid |-> TRUE, scheme |-> "https", host |-> "attacker.com",
                 path |-> "/callback", rawquery |-> <<>>, frag |-> <<>>]

\* The redirect_uri values tried: none, the registered URI, the text of the
\* URL object the client record points at now, a plain-http URI, another
\* https URI and a text that does not parse.
RedirectTexts ==
    {EmptyText, String(RegisteredURL), String(regURL), HttpText, AttackerText,
     GarbageText}

AuthzRequest(method, auth, cid, ciFail, redirect, state, rtype, scope) ==
    [endpoint |-> "authz", method |-> method, auth |-> auth,
     client_id |-> cid, ciFail |-> ciFail, redirect_uri |-> redirect,
     state |-> state, response_type |-> rtype, scope |-> scope,
     code |-> "", clientOK |-> FALSE]

\* Every combination of the parameters; the lookup may fail for the known
\* client.
AuthzRequests ==
    {AuthzRequest(m, a, c[1], c[2], u, st, rt, sc) :
        m \in {"GET", "POST"}, a \in BOOLEAN,
        c \in {<<"", FALSE>>, <<ClientID, FALSE>>, <<ClientID, TRUE>>,
               <<"unknown", FALSE>>},
        u \in RedirectTexts, st \in {"", "s1", "s2"},
        rt \in {"code", "token", "id_token"}, sc \in {"", "read", "bad"}}

\* One request at a time is served, by slot p1.
Next ==
    \/ pc["p1"] = "idle" /\ \E r \in AuthzRequests : CreateGrant("p1", r)
    \/ \E fail \in BOOLEAN : CreateGrantMint("p1", fail)
    \/ CreateGrantQuery("p1")
    \/ CreateGrantSetQuery("p1")
    \/ CreateGrantRedirect("p1")
    \/ \E fail \in BOOLEAN : implicitGrantMint("p1", fail)
    \/ implicitGrantSetFragment("p1")
    \/ implicitGrantRedirect("p1")
    \/ Return("p1")

Spec == Init /\ [][Next]_vars

---------------------------------------------------------------------------
(* Two requests in flight *)

\* Consent submissions that pass the validation: an authenticated POST of the
\* known client with the redirect URI its record holds.
ConsentPosts ==
    {AuthzRequest("POST", TRUE, ClientID, FALSE, u, st, rt, "read") :
        u \in {String(RegisteredURL), String(regURL)}, st \in {"s1", "s2"},
        rt \in {"code", "token"}}

NextRace ==
    \E p \in Procs :
        \/ pc[p] = "idle" /\ \E r \in ConsentPosts : CreateGrant(p, r)
        \/ \E fail \in BOOLEAN : CreateGrantMint(p, fail)
        \/ CreateGrantQuery(p)
        \/ CreateGrantSetQuery(p)
        \/ CreateGrantRedirect(p)
        \/ \E fail \in BOOLEAN : implicitGrantMint(p, fail)
        \/ implicitGrantSetFragment(p)
        \/ implicitGrantRedirect(p)
        \/ Return(p)

SpecRace == Init /\ [][NextRace]_vars

\* Requests to the token endpoint: a code (one the Provider minted, or a
\* forged one: codes are opaque, so a presented value is never minted later),
\* the redirect URI sent with it and whether the client's credentials are
\* right.
TokenRequests ==
    {[NoReq EXCEPT !.endpoint = "token", !.method = "POST", !.code = c,
                   !.redirect_uri = u, !.clientOK = ok] :
        c \in {grants[i].code : i \in DOMAIN grants} \cup {"forged"},
        u \in {String(RegisteredURL), AttackerText}, ok \in BOOLEAN}

\* Consent submissions for a grant code.
CodePosts == {r \in ConsentPosts : r.response_type = "code" /\ r.state = "s1"}

\* Token requests run in both slots; the consent submissions that mint the
\* codes are served in slot p1, interleaved with them.
NextToken ==
    \E p \in Procs :
        \/ pc[p] = "idle" /\ p = "p1" /\ \E r \in CodePosts : CreateGrant(p, r)
        \/ \E fail \in BOOLEAN : CreateGrantMint(p, fail)
        \/ CreateGrantQuery(p)
        \/ CreateGrantSetQuery(p)
        \/ CreateGrantRedirect(p)
        \/ pc[p] = "idle" /\ \E r \in TokenRequests : IssueToken(p, r)
        \/ \E withRefresh \in BOOLEAN : IssueTokenRedeem(p, withRefresh)
        \/ IssueTokenRevoke(p)
        \/ Return(p)

SpecToken == Init /\ [][NextToken]_vars

---------------------------------------------------------------------------
(* Requests served through Handler *)

\* The http.HandlerFunc of Handler, lines 194-206: the registry is ranged
\* over in one of its orders; an unhandled method of the matched endpoint is
\* answered 405, a path no endpoint matches with nothing.  A handler function
\* that was selected runs next (CreateGrant, RevokeGrant, IssueToken).
ServeHTTP(p, r, order) ==
    LET d == Dispatch(cfg, r.path, r.method, order)
    IN  /\ pc[p] = "idle"
        /\ served[p] = NoServed
        /\ order \in Orders(cfg)
        /\ served' = [served EXCEPT ![p] =
                         [path |-> r.path, method |-> r.method,
                          form |-> r.form, fn |-> d.fn,
                          endpoint |-> d.endpoint, next |-> d.next]]
        /\ IF d.fn = "405"
           THEN /\ resp' = [resp EXCEPT ![p] = MethodNotAllowed(@)]
                /\ pc' = [pc EXCEPT ![p] = "done"]
           ELSE IF d.fn = "none"
           THEN /\ pc' = [pc EXCEPT ![p] = "done"]
                /\ UNCHANGED resp
           ELSE UNCHANGED <<pc, resp>>
        /\ UNCHANGED <<provider, req, calls, authzData, query, minted, history,
                       cfg>>

\* RevokeGrant, src/authorizations.go:273-276: the body is empty.
RevokeGrant(p) ==
    /\ pc[p] = "idle"
    /\ served[p].fn = "RevokeGrant"
    /\ req' = [req EXCEPT ![p] = [served[p].form EXCEPT !.endpoint = "authz"]]
    /\ pc' = [pc EXCEPT ![p] = "done"]
    /\ UNCHANGED <<provider, resp, calls, authzData, query, minted, history,
                   routing>>

\* The bytes of "/other", a path outside the endpoints.
PathOther == <<"/", "o", "t", "h", "e", "r">>

\* The paths requested: the three default endpoint paths, their common prefix
\* "/oauth2", paths that continue the last segment of an endpoint path
\* ("/oauth2/authzs2", "/oauth2/tokens-old", "/oauth2x") and "/other".
Paths ==
    {DefaultConfig.authzEndpoint, DefaultConfig.tokenEndpoint,
     DefaultConfig.revokeEndpoint, PathOauth2,
     DefaultConfig.authzEndpoint \o <<"2">>,
     DefaultConfig.tokenEndpoint \o <<"-", "o", "l", "d">>,
     PathOauth2 \o <<"x">>, PathOther}

\* The requests sent to Handler: a path, a method and the form of an
\* authenticated resource owner and client asking for a grant code; code is
\* the grant code or token a POST or DELETE presents, if any.
HandlerRequests ==
    {[path |-> path, method |-> m,
      form |-> [AuthzRequest(m, TRUE, ClientID, FALSE, String(regURL), "s1",
                             "code", "read")
                  EXCEPT !.endpoint = "none", !.code = c, !.clientOK = TRUE]] :
        path \in Paths, m \in {"GET", "POST", "DELETE", "PUT"},
        c \in {""} \cup {grants[i].code : i \in DOMAIN grants}
                  \cup {tokens[i].value : i \in DOMAIN tokens}}

\* One request at a time is dispatched and handled, by slot p1; a request
\* without a body presents no code.
NextHandler ==
    \/ pc["p1"] = "idle" /\ served["p1"] = NoServed
         /\ \E r \in HandlerRequests : \E order \in Orders(cfg) :
               /\ r.method \in {"GET", "PUT"} => r.form.code = ""
               /\ ServeHTTP("p1", r, order)
    \/ served["p1"].fn = "CreateGrant"
         /\ CreateGrant("p1", [served["p1"].form EXCEPT !.endpoint = "authz"])
    \/ RevokeGrant("p1")
    \/ served["p1"].fn = "IssueToken"
         /\ IssueToken("p1", [served["p1"].form EXCEPT !.endpoint = "token"])
    \/ \E fail \in BOOLEAN : CreateGrantMint("p1", fail)
    \/ CreateGrantQuery("p1")
    \/ CreateGrantSetQuery("p1")
    \/ CreateGrantRedirect("p1")
    \/ \E withRefresh \in BOOLEAN : IssueTokenRedeem("p1", withRefresh)
    \/ IssueTokenRevoke("p1")
    \/ Return("p1")

\* Handler built with any of the configurations.
InitHandler ==
    /\ regURL = RegisteredURL
    /\ grants = <<>>
    /\ tokens = <<>>
    /\ pc = [p \in Procs |-> "idle"]
    /\ req = [p \in Procs |-> NoReq]
    /\ resp = [p \in Procs |-> NoResp]
    /\ calls = [p \in Procs |-> <<>>]
    /\ authzData = [p \in Procs |-> NoData]
    /\ query = [p \in Procs |-> NoValues]
    /\ minted = [p \in Procs |-> ""]
    /\ okCount = [i \in DOMAIN CodeNames |-> 0]
    /\ rejected = {}
    /\ overlap = [p \in Procs |-> FALSE]
    /\ arrival = [p \in Procs |-> ""]
    /\ cfg \in Configs
    /\ served = [p \in Procs |-> NoServed]

SpecHandler == InitHandler /\ [][NextHandler]_vars

---------------------------------------------------------------------------
(* Properties *)

AuthzDone(p) == pc[p] = "done" /\ req[p].endpoint = "authz"
TokenDone(p) == pc[p] = "done" /\ req[p].endpoint = "token"

\* The token endpoint answered slot p with a token.
TokenIssued(p) == TokenDone(p) /\ resp[p].kind = "json" /\ resp[p].body.error = ""

\* The token endpoint answered slot p with invalid_grant.
GrantRefused(p) ==
    /\ TokenDone(p)
    /\ resp[p].kind = "json"
    /\ resp[p].body.error = "invalid_grant"
    /\ resp[p].body.desc = "Grant code was revoked, expired or already used."

\* The tokens issued from grant code c.
TokensOf(c) == {i \in DOMAIN tokens : tokens[i].grant = c}

\* C1: for every grant code, at most one token request for it is answered
\* with a token, whatever the sequence of requests.
C1_OneShotGrant == \A i \in DOMAIN CodeNames : okCount[i] <= 1

\* A code was redeemed once and a later presentation of it was refused.
C1_Witness ==
    \E i \in DOMAIN grants :
        /\ okCount[i] = 1
        /\ grants[i].code \in rejected
        /\ \E p \in Procs : GrantRefused(p) /\ req[p].code = grants[i].code
                            /\ arrival[p] = "redeemed"

\* C2: a request of the authenticated client presenting a code that was
\* already redeemed is answered with invalid_grant and its description, and
\* once a code was answered with invalid_grant every token issued from it is
\* revoked, then and ever after.
C2_ReplayRevokesDescendants ==
    /\ \A p \in Procs :
          TokenDone(p) /\ req[p].clientOK /\ arrival[p] = "redeemed"
              => GrantRefused(p)
    /\ \A c \in rejected :
          \A i \in TokensOf(c) : tokens[i].status = "revoked"

\* A redeemed code was presented again and refused, and the access token that
\* had been issued from it is revoked.
C2_Witness ==
    \E p \in Procs :
        /\ GrantRefused(p)
        /\ arrival[p] = "redeemed"
        /\ \E i \in TokensOf(req[p].code) :
              tokens[i].kind = "access" /\ tokens[i].status = "revoked"

\* The state of grant code c in the Provider's storage.
GrantState(c) ==
    IF GrantIndex(grants, c) = 0 THEN "unknown"
    ELSE grants[GrantIndex(grants, c)].state

\* C3: when the two slots have both served a redemption request of the
\* authenticated client for the same code, either one was answered with a
\* token and the other with invalid_grant, or both were answered with
\* invalid_grant and the grant is revoked; never both with a token.
C3_ConcurrentRedemption ==
    \A p, q \in Procs :
        ( /\ p # q
          /\ TokenDone(p) /\ TokenDone(q)
          /\ req[p].clientOK /\ req[q].clientOK
          /\ req[p].code = req[q].code )
        => \/ TokenIssued(p) /\ GrantRefused(q)
           \/ GrantRefused(p) /\ TokenIssued(q)
           \/ /\ GrantRefused(p) /\ GrantRefused(q)
              /\ GrantState(req[p].code) \in {"revoked", "unknown"}

\* Two redemption requests for one issued code were in flight together; one
\* got the token, the other invalid_grant.
C3_Witness ==
    \E p, q \in Procs :
        /\ p # q
        /\ overlap[p] /\ overlap[q]
        /\ arrival[p] = "issued" /\ arrival[q] = "issued"
        /\ req[p].code = req[q].code
        /\ TokenIssued(p) /\ GrantRefused(q)

---------------------------------------------------------------------------
(* Properties of the authorization endpoint *)

\* Whether the handler of slot p has called Provider operation op.
Called(p, op) == \E i \in DOMAIN calls[p] : calls[p][i] = op

\* Nothing was minted or revoked for the request of slot p.
NoMutation(p) ==
    \A op \in {"GenAuthzCode", "GenToken", "RevokeAuthzCode", "RevokeToken"} :
        ~Called(p, op)

\* Slot p was answered with exactly one rendered page carrying error e.
Rendered(p, e) ==
    /\ resp[p].n = 1
    /\ resp[p].kind = "render"
    /\ resp[p].status = 200
    /\ resp[p].errors = <<e>>

\* The client of request r is registered and its lookup succeeds.
KnownClient(r) == r.client_id = ClientID /\ ~r.ciFail

\* Request r fails one of the checks made before a redirect target is
\* trusted, against the URL object u of the client record: client_id present,
\* client lookup, redirect_uri parse, https scheme, registered-URI equality.
EarlyFailure(r, u) ==
    \/ r.client_id = ""
    \/ ClientInfo(r.client_id, r.ciFail).err # ""
    \/ Parse(r.redirect_uri).err
    \/ Parse(r.redirect_uri).url.Scheme # "https"
    \/ String(Parse(r.redirect_uri).url) # String(u)

\* The text names the scheme, host and path of the registered URI.
TargetsRegistered(t) ==
    /\ t.valid
    /\ t.scheme = RegisteredURL.Scheme
    /\ t.host = RegisteredURL.Host
    /\ t.path = RegisteredURL.Path

\* C4: an authenticated request that fails the client_id, client lookup,
\* redirect_uri parse, https or registered-URI equality check is answered with
\* a rendered page of status 200, never a 302; and every 302 of the
\* authorization endpoint goes to the login URL or to the client's registered
\* redirection URI.
C4_RenderUntilTargetTrusted ==
    \A p \in Procs :
        AuthzDone(p) =>
            /\ ( req[p].auth /\ EarlyFailure(req[p], RegisteredURL) )
                  => /\ resp[p].n = 1
                     /\ resp[p].kind = "render"
                     /\ resp[p].status = 200
            /\ resp[p].kind = "redirect"
                  => /\ resp[p].status = 302
                     /\ \/ resp[p].to = "login"
                        \/ resp[p].to = "uri"
                           /\ TargetsRegistered(resp[p].location)

\* C5: an authenticated request of the known client whose redirect_uri uses
\* https and differs from the URI the client registered is answered with the
\* rendered redirect-URI-mismatch error (access_denied), and neither
\* GenAuthzCode nor GenToken is called for it.
C5_MismatchRendersAndMintsNothing ==
    \A p \in Procs :
        ( /\ AuthzDone(p)
          /\ req[p].auth /\ KnownClient(req[p])
          /\ req[p].redirect_uri.valid
          /\ req[p].redirect_uri.scheme = "https"
          /\ req[p].redirect_uri # String(RegisteredURL) )
        => /\ Rendered(p, ErrRedirectURLMismatch)
           /\ ErrRedirectURLMismatch.code = "access_denied"
           /\ ~Called(p, "GenAuthzCode") /\ ~Called(p, "GenToken")

\* C6: every request whose redirect_uri has a scheme other than https is
\* answered with the rendered invalid-redirect-URI error (access_denied), and
\* no state-mutating Provider operation is called for it.
C6_HttpsOnlyBeforeMutation ==
    \A p \in Procs :
        ( /\ AuthzDone(p)
          /\ req[p].redirect_uri.valid
          /\ req[p].redirect_uri.scheme # "https" )
        => /\ Rendered(p, ErrRedirectURLInvalid)
           /\ ErrRedirectURLInvalid.code = "access_denied"
           /\ NoMutation(p)

\* C6, amended: a request whose redirect_uri has a scheme other than https
\* never gets as far as a state-mutating Provider operation and is answered
\* once: with the login redirect when there is no session, with a rendered
\* error otherwise, which for the known client is the invalid-redirect-URI
\* error (access_denied) and for a missing client_id the client-id-missing
\* error.
C6_HttpsOnlyOnceClientKnown ==
    \A p \in Procs :
        ( /\ AuthzDone(p)
          /\ req[p].redirect_uri.valid
          /\ req[p].redirect_uri.scheme # "https" )
        => /\ NoMutation(p)
           /\ resp[p].n = 1
           /\ IF req[p].auth
              THEN resp[p].kind = "render" /\ Len(resp[p].errors) = 1
              ELSE resp[p].to = "login"
           /\ ( req[p].auth /\ KnownClient(req[p]) )
                 => /\ Rendered(p, ErrRedirectURLInvalid)
                    /\ ErrRedirectURLInvalid.code = "access_denied"
           /\ ( req[p].auth /\ req[p].client_id = "" )
                 => Rendered(p, ErrClientIDMissing)

\* A consent submission with a plain-http redirect_uri and otherwise valid
\* parameters was rendered the invalid-redirect-URI error.
C6_Witness ==
    \E p \in Procs :
        /\ AuthzDone(p)
        /\ req[p].method = "POST" /\ req[p].auth /\ KnownClient(req[p])
        /\ req[p].redirect_uri = HttpText
        /\ req[p].state = "s1" /\ req[p].response_type = "code"
        /\ req[p].scope = "read"
        /\ Rendered(p, ErrRedirectURLInvalid)

\* C7: the redirection URI the client record holds is the one that was
\* registered, whatever requests the authorization endpoint has served.
C7_RegisteredURIUnchanged == regURL = RegisteredURL

\* The parameters a Location carries in its query and in its fragment (after
\* the leading "#" the implicit flow puts there).
LocationQuery(t) == ParseQuery(t.rawquery)
LocationFragment(t) ==
    LET f == UnescapeFragment(t.frag)
    IN  ParseQuery(IF Len(f) > 0 /\ f[1] = Hash THEN Tail(f) ELSE f)

\* C8: the Location answering a consent submission that ran while another
\* was in flight carries the code (or access token) minted for it and the
\* state it submitted.
C8_ResponsesCarryOwnValues ==
    \A p \in Procs :
        ( /\ AuthzDone(p)
          /\ overlap[p]
          /\ minted[p] # ""
          /\ resp[p].kind = "redirect" /\ resp[p].to = "uri" )
        => LET q == LocationQuery(resp[p].location)
               f == LocationFragment(resp[p].location)
           IN  IF req[p].response_type = "code"
               THEN /\ "code" \in DOMAIN q /\ q["code"] = minted[p]
                    /\ "state" \in DOMAIN q /\ q["state"] = req[p].state
               ELSE /\ "access_token" \in DOMAIN f
                    /\ f["access_token"] = minted[p]
                    /\ "state" \in DOMAIN f /\ f["state"] = req[p].state

\* C9: a 302 to the client's redirection URI that carries error, code or
\* access_token also carries a state parameter equal to the state submitted.
C9_StateEcho ==
    \A p \in Procs :
        ( /\ AuthzDone(p)
          /\ resp[p].kind = "redirect" /\ resp[p].to = "uri" )
        => LET q == LocationQuery(resp[p].location)
               f == LocationFragment(resp[p].location)
           IN  ( \/ "error" \in DOMAIN q \/ "code" \in DOMAIN q
                 \/ "access_token" \in DOMAIN f \/ "error" \in DOMAIN f )
               => \/ "state" \in DOMAIN q /\ q["state"] = req[p].state
                  \/ "state" \in DOMAIN f /\ f["state"] = req[p].state

\* C10: a GET or POST made while the Provider reports no session is answered
\* with one 302 to Provider.LoginURL of the request's URL, and no Provider
\* operation that mints a grant code or a token is called for it.
C10_LoginRedirect ==
    \A p \in Procs :
        ( AuthzDone(p) /\ ~req[p].auth )
        => /\ resp[p].n = 1
           /\ resp[p].kind = "redirect"
           /\ resp[p].status = 302
           /\ resp[p].to = "login"
           /\ resp[p].referer = ReqURL(req[p])
           /\ ~Called(p, "GenAuthzCode") /\ ~Called(p, "GenToken")

\* A consent submission with valid parameters but no session was sent to the
\* login URL.
C10_Witness ==
    \E p \in Procs :
        /\ AuthzDone(p)
        /\ ~req[p].auth
        /\ req[p].method = "POST" /\ KnownClient(req[p])
        /\ req[p].redirect_uri = String(RegisteredURL)
        /\ req[p].state = "s1" /\ req[p].response_type = "code"
        /\ req[p].scope = "read"
        /\ resp[p].to = "login"

---------------------------------------------------------------------------
(* Properties of the successful flows *)

\* Slot p has served an authenticated consent submission of the known client
\* with the registered redirect URI, a state, a known scope and response type
\* rt.
ValidPost(p, rt) ==
    /\ AuthzDone(p)
    /\ req[p].method = "POST" /\ req[p].auth /\ KnownClient(req[p])
    /\ req[p].redirect_uri = String(RegisteredURL)
    /\ req[p].state # "" /\ req[p].scope = "read"
    /\ req[p].response_type = rt

\* The Provider was asked to mint for slot p and failed.
MintFailed(p) ==
    /\ Called(p, "GenAuthzCode") \/ Called(p, "GenToken")
    /\ minted[p] = ""

\* How often the handler of slot p has called Provider operation op.
CallCount(p, op) == Cardinality({i \in DOMAIN calls[p] : calls[p][i] = op})

\* C11: an authenticated POST with valid parameters and response_type=code
\* (the Provider not failing) has GenAuthzCode called once and GenToken never,
\* and is answered with one 302 whose Location is the registered URI with the
\* query parameters code (the minted code) and state (the submitted one).
C11_CodeRedirect ==
    \A p \in Procs :
        ( ValidPost(p, "code") /\ ~MintFailed(p) )
        => /\ CallCount(p, "GenAuthzCode") = 1
           /\ ~Called(p, "GenToken")
           /\ minted[p] # ""
           /\ resp[p].n = 1
           /\ resp[p].kind = "redirect" /\ resp[p].status = 302
           /\ resp[p].to = "uri"
           /\ resp[p].location =
                 [String(RegisteredURL) EXCEPT
                    !.rawquery = <<<<"code", minted[p]>>,
                                   <<"state", req[p].state>>>>]

\* The five pairs the implicit flow delivers for slot p.
ImplicitPairs(p) ==
    {<<"access_token", minted[p]>>, <<"token_type", "bearer">>,
     <<"expires_in", "600">>, <<"scope", req[p].scope>>,
     <<"state", req[p].state>>}

\* C12: an authenticated POST with valid parameters and response_type=token
\* (the Provider not failing) is answered with a 302 whose Location is the
\* registered URI, a single "#" and the pairs access_token, token_type,
\* expires_in, scope and state; the access token is not in the query.
C12_ImplicitFragment ==
    \A p \in Procs :
        ( ValidPost(p, "token") /\ ~MintFailed(p) )
        => /\ resp[p].n = 1
           /\ resp[p].kind = "redirect" /\ resp[p].status = 302
           /\ resp[p].to = "uri"
           /\ TargetsRegistered(resp[p].location)
           /\ {resp[p].location.frag[i] : i \in DOMAIN resp[p].location.frag}
                 = ImplicitPairs(p)
           /\ "access_token" \notin DOMAIN LocationQuery(resp[p].location)

\* The keys of a sequence of pairs.
Keys(pairs) == {pairs[i][1] : i \in DOMAIN pairs}

\* C13: for a request with response_type=token the Provider is never asked
\* for a grant code, the token it mints is an access token, and the Location
\* of the answer carries no refresh_token, in the fragment or elsewhere.
C13_ImplicitNoRefresh ==
    \A p \in Procs :
        ( AuthzDone(p) /\ req[p].response_type = "token" )
        => /\ ~Called(p, "GenAuthzCode")
           /\ CallCount(p, "GenToken") <= 1
           /\ \A i \in DOMAIN tokens :
                 tokens[i].value = minted[p] => tokens[i].kind = "access"
           /\ "refresh_token" \notin Keys(resp[p].location.frag)
           /\ "refresh_token" \notin Keys(resp[p].location.rawquery)

\* An implicit consent submission was answered with a Location whose fragment
\* carries the access token minted for it.
C13_Witness ==
    \E p \in Procs :
        /\ ValidPost(p, "token")
        /\ minted[p] # ""
        /\ resp[p].kind = "redirect" /\ resp[p].to = "uri"
        /\ <<"access_token", minted[p]>> \in
              {resp[p].location.frag[i] : i \in DOMAIN resp[p].location.frag}

---------------------------------------------------------------------------
(* Properties of the failures after the redirect target is trusted *)

\* Slot p has served an authenticated request of the known client whose
\* redirect_uri is the registered one.
TrustedTarget(p) ==
    /\ AuthzDone(p)
    /\ req[p].auth /\ KnownClient(req[p])
    /\ req[p].redirect_uri = String(RegisteredURL)

\* Slot p was answered with one 302 to the registered URI whose query carries
\* the code and the description of error e.
RedirectedWith(p, e) ==
    /\ resp[p].n = 1
    /\ resp[p].kind = "redirect" /\ resp[p].status = 302
    /\ resp[p].to = "uri"
    /\ TargetsRegistered(resp[p].location)
    /\ LET q == LocationQuery(resp[p].location)
       IN  /\ "error" \in DOMAIN q /\ q["error"] = e.code
           /\ "error_description" \in DOMAIN q
           /\ q["error_description"] = e.desc

\* C14: an authenticated request of the known client with the registered
\* redirect_uri and no state is answered with a 302 to the registered URI
\* whose query carries error=invalid_request and the description "state
\* parameter is required by this authorization server."
C14_StateRequired ==
    \A p \in Procs :
        ( TrustedTarget(p) /\ req[p].state = "" )
        => /\ RedirectedWith(p, ErrStateRequired(""))
           /\ ErrStateRequired("").code = "invalid_request"

\* C15: an authenticated request of the known client with the registered
\* redirect_uri, a state and a supported response_type but no scope is
\* answered with a 302 to the registered URI whose query carries
\* error=invalid_request and the description "scope parameter is required by
\* this authorization server.", and ScopesInfo is not called.
C15_ScopeRequired ==
    \A p \in Procs :
        ( /\ TrustedTarget(p)
          /\ req[p].state # ""
          /\ req[p].response_type \in {"code", "token"}
          /\ req[p].scope = "" )
        => /\ RedirectedWith(p, ErrScopeRequired(req[p].state))
           /\ ErrScopeRequired(req[p].state).code = "invalid_request"
           /\ ~Called(p, "ScopesInfo")

\* C16: an authenticated request of the known client with the registered
\* redirect_uri and a state whose response_type is neither "code" nor
\* "token" is answered with a 302 to the registered URI carrying
\* error=unsupported_response_type, and nothing is minted.
C16_UnsupportedResponseType ==
    \A p \in Procs :
        ( /\ TrustedTarget(p)
          /\ req[p].state # ""
          /\ req[p].response_type \notin {"code", "token"} )
        => /\ RedirectedWith(p, ErrUnsupportedResponseType(req[p].state))
           /\ ErrUnsupportedResponseType(req[p].state).code
                 = "unsupported_response_type"
           /\ ~Called(p, "GenAuthzCode") /\ ~Called(p, "GenToken")

---------------------------------------------------------------------------
(* Properties of the rendered pages and of the early checks *)

\* C17: every page the authorization endpoint renders (the consent form and
\* every rendered error) carries Strict-Transport-Security with the
\* configured max-age, X-XSS-Protection: 1; mode=block,
\* X-Content-Type-Options: nosniff and X-Frame-Options: SAMEORIGIN.
C17_SecurityHeaders ==
    \A p \in Procs :
        ( AuthzDone(p) /\ resp[p].kind = "render" )
        => SecurityHeaders(resp[p]) =
              [sts |-> stsMaxAge, xss |-> "1; mode=block", cto |-> "nosniff",
               xfo |-> "SAMEORIGIN"]

\* C18: an authenticated request of the known client that supplies no
\* redirect_uri is validated against the registered URI: it is not answered
\* with a redirect-URI error, a missing state, response type or scope is
\* answered with a 302 to the registered URI, and a valid GET gets the form.
C18_RedirectURIFallback ==
    \A p \in Procs :
        ( /\ AuthzDone(p)
          /\ req[p].auth /\ KnownClient(req[p])
          /\ req[p].redirect_uri = EmptyText )
        => /\ ~Rendered(p, ErrRedirectURLInvalid)
           /\ ~Rendered(p, ErrRedirectURLMismatch)
           /\ ( \/ req[p].state = ""
                \/ req[p].response_type \notin {"code", "token"}
                \/ req[p].scope = "" )
                 => /\ resp[p].kind = "redirect" /\ resp[p].to = "uri"
                    /\ TargetsRegistered(resp[p].location)

\* C19: an authenticated request whose client_id is present but not
\* registered is answered with the rendered client-not-found error, without
\* redirect or mint; a client lookup that fails is rendered as server_error.
C19_ClientNotFound ==
    \A p \in Procs :
        ( AuthzDone(p) /\ req[p].auth /\ req[p].client_id # "" )
        => /\ ( req[p].client_id # ClientID /\ ~req[p].ciFail )
                 => /\ Rendered(p, ErrClientIDNotFound)
                    /\ NoMutation(p)
           /\ req[p].ciFail
                 => /\ resp[p].n = 1 /\ resp[p].kind = "render"
                    /\ Len(resp[p].errors) = 1
                    /\ resp[p].errors[1].code = "server_error"

\* C20: every request with no client_id is answered with the rendered
\* client-id-missing error (invalid_request); no redirect is issued and
\* Provider.ClientInfo is not called.
C20_ClientIDMissing ==
    \A p \in Procs :
        ( AuthzDone(p) /\ req[p].client_id = "" )
        => /\ Rendered(p, ErrClientIDMissing)
           /\ ErrClientIDMissing.code = "invalid_request"
           /\ resp[p].kind # "redirect"
           /\ ~Called(p, "ClientInfo")

\* C20, amended: a request with no client_id never reaches
\* Provider.ClientInfo or a mint; made with a session it is answered with the
\* rendered client-id-missing error (invalid_request) and no redirect, made
\* without one with the redirect to the login URL and nothing else.
C20_ClientIDMissingWithSession ==
    \A p \in Procs :
        ( AuthzDone(p) /\ req[p].client_id = "" )
        => /\ ~Called(p, "ClientInfo")
           /\ NoMutation(p)
           /\ resp[p].n = 1
           /\ req[p].auth
                 => /\ Rendered(p, ErrClientIDMissing)
                    /\ ErrClientIDMissing.code = "invalid_request"
                    /\ resp[p].kind # "redirect"
           /\ ~req[p].auth
                 => /\ resp[p].kind = "redirect" /\ resp[p].status = 302
                    /\ resp[p].to = "login"

\* A consent submission with every parameter but client_id was rendered the
\* client-id-missing error.
C20_Witness ==
    \E p \in Procs :
        /\ AuthzDone(p)
        /\ req[p].method = "POST" /\ req[p].auth
        /\ req[p].client_id = ""
        /\ req[p].redirect_uri = String(RegisteredURL)
        /\ req[p].state = "s1" /\ req[p].response_type = "code"
        /\ req[p].scope = "read"
        /\ Rendered(p, ErrClientIDMissing)

---------------------------------------------------------------------------
(* Properties of the exchange *)

\* C21: a token request whose redirect_uri differs from the one the grant
\* was created with is never answered with a token; from the authenticated
\* client it is answered with invalid_grant.
C21_RedirectMatchAtExchange ==
    \A p \in Procs :
        ( /\ TokenDone(p)
          /\ GrantIndex(grants, req[p].code) # 0
          /\ grants[GrantIndex(grants, req[p].code)].redirect
                # req[p].redirect_uri )
        => /\ ~TokenIssued(p)
           /\ req[p].clientOK => GrantRefused(p)

\* An issued code was presented by its client with another redirect URI and
\* refused.
C21_Witness ==
    \E p \in Procs :
        /\ TokenDone(p)
        /\ req[p].clientOK
        /\ arrival[p] = "issued"
        /\ req[p].redirect_uri = AttackerText
        /\ GrantRefused(p)

---------------------------------------------------------------------------
(* Properties of the validation order and of the responses *)

\* The first check request r fails, in the order client_id (1), client lookup
\* (2), redirect_uri parse (3), https scheme (4), registered-URI match (5),
\* state (6), response_type (7), scope (8), scope parsing (9), against the
\* URI u of the client record; 0 when it passes them all.
FirstFailing(r, u) ==
    IF r.client_id = "" THEN 1
    ELSE IF ClientInfo(r.client_id, r.ciFail).err # "" THEN 2
    ELSE IF Parse(r.redirect_uri).err THEN 3
    ELSE IF Parse(r.redirect_uri).url.Scheme # "https" THEN 4
    ELSE IF String(Parse(r.redirect_uri).url) # String(u) THEN 5
    ELSE IF r.state = "" THEN 6
    ELSE IF r.response_type \notin {"code", "token"} THEN 7
    ELSE IF r.scope = "" THEN 8
    ELSE IF ScopesInfo(r.scope).err # "" THEN 9
    ELSE 0

\* The error check k reports for request r.
CheckError(k, r) ==
    CASE k = 1 -> ErrClientIDMissing
      [] k = 2 -> ErrServerError("", ClientInfo(r.client_id, r.ciFail).err)
      [] k = 3 -> ErrRedirectURLInvalid
      [] k = 4 -> ErrRedirectURLInvalid
      [] k = 5 -> ErrRedirectURLMismatch
      [] k = 6 -> ErrStateRequired(r.state)
      [] k = 7 -> ErrUnsupportedResponseType(r.state)
      [] k = 8 -> ErrScopeRequired(r.state)
      [] k = 9 -> ErrServerError(r.state, ScopesInfo(r.scope).err)

\* The consent submission of slot p failed after its redirect target was
\* trusted: at the state, response_type or scope checks, or at the mint.
LateFailure(p) ==
    \/ FirstFailing(req[p], RegisteredURL) \in 6..9
    \/ MintFailed(p)

\* C25: a consent submission of the known client with the registered
\* redirect_uri that fails at a later step, a failure of the Provider to mint
\* included, is answered with one 302 to the registered URI whose query
\* carries an error, never with a rendered page.
C25_LateFailuresRedirected ==
    \A p \in Procs :
        ( TrustedTarget(p) /\ req[p].method = "POST" /\ LateFailure(p) )
        => /\ resp[p].n = 1
           /\ resp[p].kind = "redirect" /\ resp[p].status = 302
           /\ resp[p].to = "uri"
           /\ TargetsRegistered(resp[p].location)
           /\ "error" \in DOMAIN LocationQuery(resp[p].location)

\* C26: an authenticated request that fails one or more checks, the match
\* being with the URI that was registered, is answered for the first check
\* it fails in the fixed order: with the rendered error of that check for the
\* checks up to the registered-URI match, with a redirect carrying the error
\* of that check for the later ones.
C26_FirstFailingCheck ==
    \A p \in Procs :
        LET k == FirstFailing(req[p], RegisteredURL)
        IN  ( AuthzDone(p) /\ req[p].auth /\ k # 0 )
            => IF k <= 5
               THEN Rendered(p, CheckError(k, req[p]))
               ELSE RedirectedWith(p, CheckError(k, req[p]))

\* C27: a step taken for a GET leaves the grants and the tokens as they were
\* and calls neither GenAuthzCode nor GenToken; the grants change only in a
\* step taken for an authenticated POST that passed all the checks.
C27_GetNeverMints ==
    [][ /\ \A p \in Procs :
             ( req'[p].method = "GET" /\ req'[p].endpoint = "authz" )
             => /\ grants' = grants /\ tokens' = tokens
                /\ \A i \in DOMAIN calls'[p] :
                      calls'[p][i] \notin {"GenAuthzCode", "GenToken"}
                /\ minted'[p] = ""
        /\ grants' # grants
             => \E p \in Procs :
                   /\ pc[p] = "codeMint" /\ pc'[p] # pc[p]
                   /\ req[p].method = "POST" /\ req[p].auth
                   /\ FirstFailing(req[p], regURL) = 0
                   /\ authzData[p] # NoData ]_vars

\* A GET that passes all the checks was rendered the consent form while the
\* Provider holds a grant minted earlier.
C27_Witness ==
    \E p \in Procs :
        /\ AuthzDone(p)
        /\ req[p].method = "GET" /\ req[p].auth
        /\ FirstFailing(req[p], regURL) = 0
        /\ resp[p].kind = "render" /\ resp[p].errors = <<>>
        /\ ~Called(p, "GenAuthzCode") /\ ~Called(p, "GenToken")
        /\ grants # <<>>

\* C28: a request CreateGrant has handled got exactly one response, a
\* rendered page or a redirect; while it is being handled at most one was
\* written.
C28_ExactlyOneResponse ==
    \A p \in Procs :
        /\ req[p].endpoint = "authz" => resp[p].n <= 1
        /\ AuthzDone(p)
             => /\ resp[p].n = 1
                /\ resp[p].kind \in {"render", "redirect"}
                /\ resp[p].kind = "redirect" <=> resp[p].status = 302
                /\ resp[p].kind = "render" <=> resp[p].status = 200

\* A consent submission whose mint failed was answered with one page, that
\* of the failure.
C28_Witness ==
    \E p \in Procs :
        /\ AuthzDone(p)
        /\ req[p].method = "POST" /\ req[p].auth
        /\ Called(p, "GenAuthzCode") /\ minted[p] = ""
        /\ resp[p].n = 1 /\ resp[p].kind = "render"

---------------------------------------------------------------------------
(* Properties of Handler *)

\* Slot p has been served through Handler.
Served(p) == pc[p] = "done" /\ served[p] # NoServed

\* The endpoint paths of the registry that are a prefix of the path.
Matching(path) == {e \in DOMAIN Registry(cfg) : HasPrefix(path, e)}

\* The endpoint a request is addressed to: of the endpoint paths that are a
\* prefix of its path, the longest.
Addressed(path) ==
    CHOOSE e \in Matching(path) : \A f \in Matching(path) : Len(f) <= Len(e)

\* C22: a request addressed to the authorization or the token endpoint with
\* a method the endpoint has no handler for is answered 405 Method Not
\* Allowed, and no flow handler runs for it.
C22_MethodNotAllowed ==
    \A p \in Procs :
        ( /\ Served(p)
          /\ Matching(served[p].path) # {}
          /\ served[p].method
                \notin DOMAIN Registry(cfg)[Addressed(served[p].path)] )
        => /\ served[p].fn = "405"
           /\ resp[p].n = 1
           /\ resp[p].status = 405
           /\ calls[p] = <<>>

\* The tokens the request served in slot p presents.
Presented(p) == {i \in DOMAIN tokens : tokens[i].value = served[p].form.code}

\* C23: a POST to the revocation endpoint path is routed to the revocation
\* operation: it is answered with success, and a token it presents is
\* revoked when it completes, whether it was revoked before or not.
C23_RevokeEndpoint ==
    \A p \in Procs :
        ( /\ Served(p)
          /\ served[p].path = cfg.revokeEndpoint
          /\ served[p].method = "POST" )
        => /\ served[p].fn = "RevokeToken"
           /\ resp[p].status = 200
           /\ \A i \in Presented(p) : tokens[i].status = "revoked"

\* C24: when a DELETE to the authorization endpoint has completed, the grant
\* code it names and every token issued from it are revoked, by a call of
\* Provider.RevokeAuthzCode.
C24_DeleteRevokesGrant ==
    \A p \in Procs :
        ( /\ Served(p)
          /\ served[p].fn = "RevokeGrant"
          /\ GrantIndex(grants, served[p].form.code) # 0 )
        => /\ Called(p, "RevokeAuthzCode")
           /\ grants[GrantIndex(grants, served[p].form.code)].state = "revoked"
           /\ \A i \in TokensOf(served[p].form.code) :
                 tokens[i].status = "revoked"

\* C29: the handler Handler selects for a request is the same in whatever
\* order the registry is ranged over, for every configuration of the
\* endpoint paths.
C29_DeterministicDispatch ==
    \A p \in Procs :
        served[p] # NoServed
        => \A o \in Orders(cfg) :
              Dispatch(cfg, served[p].path, served[p].method, o).fn
                 = served[p].fn

\* C30: a request whose path no registered endpoint path is a prefix of gets
\* nothing written and is not handed to the next handler; no flow of the
\* authorization endpoint invokes the next handler either.
C30_UnmatchedPath ==
    \A p \in Procs :
        /\ ( Served(p) /\ Matching(served[p].path) = {} )
              => /\ served[p].fn = "none"
                 /\ resp[p] = NoResp
                 /\ calls[p] = <<>>
                 /\ ~served[p].next
        /\ served[p].fn \in {"CreateGrant", "RevokeGrant"} => ~served[p].next

\* A request for a path outside the endpoints was served: nothing written.
C30_Witness ==
    \E p \in Procs :
        /\ Served(p)
        /\ served[p].path = PathOther
        /\ served[p].fn = "none"
        /\ resp[p].n = 0

====
